---- MODULE Spec2Model ----
(***************************************************************************)
(* applegrep: literal substring search.  The host (main) reads a haystack, *)
(* sets up the compute backend, dispatches one grep_kernel instance per    *)
(* candidate offset, waits, harvests the counter and the offsets buffer    *)
(* and prints one record per retained offset.                              *)
(*                                                                         *)
(* Byte strings are sequences of byte values; the byte at C offset i of a  *)
(* string s is s[i + 1].                                                   *)
(***************************************************************************)
EXTENDS Integers, Sequences, FiniteSets, TLC

(* ------------------------------ bounds -------------------------------- *)

\* longest haystack drawn
MaxN == 4
\* longest pattern drawn
MaxM == 3
\* Number of slots of the offsets buffer the host allocates.  main.cpp:100
\* sets 10; the model scales it down so that more occurrences than slots fit
\* into a haystack of MaxN bytes.  The kernel's own limit (KernelLimit) is
\* kept as written and stays above it, as in the source.
max_matches == 2

(* --------------------------- program constants ------------------------ *)

\* '\0', the terminator both kernel length scans look for
NUL == 0
\* '\n'
NL == 10
\* number of entries of the kernel's shift table
ALPHABET_SIZE == 256
\* the literal the kernel compares the pre-increment value against
KernelLimit == 1000

\* The bytes the inputs are drawn from: NUL, newline and the letter 'a'.
Bytes == {NUL, NL, 97}
\* argv[1] is a C string: it holds no NUL byte.
ArgBytes == Bytes \ {NUL}

RECURSIVE StringsUpTo(_, _)
StringsUpTo(S, n) ==
    IF n = 0 THEN {<<>>}
    ELSE LET shorter == StringsUpTo(S, n - 1)
         IN  shorter \cup {Append(s, b) : s \in {t \in shorter : Len(t) = n - 1}, b \in S}

Haystacks == StringsUpTo(Bytes, MaxN)
Patterns  == StringsUpTo(ArgBytes, MaxM)

(* ----------------------- grep_kernel, pure parts ---------------------- *)

\* while (buf[len] != '\0') len++;   buf always ends with the NUL the host
\* pushed, so the scan stops inside the buffer.
RECURSIVE ScanLength(_, _)
ScanLength(buf, len) ==
    IF buf[len + 1] # NUL THEN ScanLength(buf, len + 1) ELSE len

text_length(textBuf) == ScanLength(textBuf, 0)
pattern_length(patBuf) == ScanLength(patBuf, 0)

\* if (pattern_length == 0 || tid > text_length - pattern_length) return;
\* The operands are uint: when pattern_length > text_length the difference
\* wraps to 2^32 - (pattern_length - text_length), which no thread id of the
\* model exceeds, so the comparison is false there.
GuardReturns(tid, tl, pl) ==
    \/ pl = 0
    \/ /\ pl <= tl
       /\ tid > tl - pl

\* lines 38-49: the entry of bad_char_shift for byte c once both loops have
\* run: pattern_length - 1 - i for the last i < pattern_length - 1 with
\* pattern[i] == c, pattern_length when there is none.  The comparison below
\* never reads the table.
ShiftEntry(patBuf, pl, c) ==
    LET at == {i \in 0..(pl - 2) : patBuf[i + 1] = c}
    IN  IF at = {} THEN pl
        ELSE pl - 1 - (CHOOSE i \in at : \A k \in at : k <= i)

\* CompareLoop that never compares pattern[0]
RECURSIVE CompareLoop_SkipsFirst(_, _, _, _)
CompareLoop_SkipsFirst(textBuf, patBuf, tid, j) ==
    IF j >= 0 /\ (j = 0 \/ patBuf[j + 1] = textBuf[tid + j + 1])
    THEN CompareLoop_SkipsFirst(textBuf, patBuf, tid, j - 1)
    ELSE j

\* int j = pattern_length - 1;
\* while (j >= 0 && pattern[j] == text[tid + j]) j--;
\* The value of j when the loop stops.  Only called when every index read
\* lies inside textBuf.
RECURSIVE CompareLoop(_, _, _, _)
CompareLoop(textBuf, patBuf, tid, j) ==
    IF j >= 0 /\ patBuf[j + 1] = textBuf[tid + j + 1]
    THEN CompareLoop(textBuf, patBuf, tid, j - 1)
    ELSE j

\* The first read of the loop is text[tid + pattern_length - 1]: it is the
\* largest index read, so the loop stays inside the buffer iff that one does.
ReadsInBounds(textBuf, tid, pl) == tid + pl - 1 < Len(textBuf)

\* The outcomes of "if (j < 0)".  Inside the buffer the loop decides.  A read
\* past the end of the text buffer is undefined: the bytes found there are
\* arbitrary, so the loop may fall through to j < 0 whenever the bytes it
\* reads inside the buffer agree with the pattern, and may always stop early.
CompareOutcomes(textBuf, patBuf, tid, pl) ==
    IF ReadsInBounds(textBuf, tid, pl)
    THEN {CompareLoop(textBuf, patBuf, tid, pl - 1) < 0}
    ELSE {FALSE} \cup
         {b \in {TRUE} : \A j \in 0..(pl - 1) :
              tid + j < Len(textBuf) => patBuf[j + 1] = textBuf[tid + j + 1]}

(* --------------------------- main, pure parts ------------------------- *)

\* std::vector<char> data(s.begin(), s.end()); data.push_back('\0');
WithTerminator(s) == Append(s, NUL)

\* MTL::Size(text.size() - pattern.size() + 1, 1, 1) in size_t arithmetic.
\* For pattern.size() > text.size() + 1 the width wraps to
\* 2^64 - (pattern.size() - text.size() - 1); the model follows the first
\* n + 2 instances of such a grid, tid 0 .. n + 1: the last of them is the
\* first whose comparison reads nothing but bytes beyond the text buffer.
GridWraps(n, m) == m > n + 1
\* GridInstances without the "+ 1"
GridInstances_NoPlusOne(n, m) == IF GridWraps(n, m) THEN n + 2 ELSE n - m

GridInstances(n, m) == IF GridWraps(n, m) THEN n + 2 ELSE n - m + 1

\* LineStartsFrom that appends i, the offset of the newline itself
RECURSIVE LineStartsFrom_OffByOne(_, _, _)
LineStartsFrom_OffByOne(txt, i, acc) ==
    IF i >= Len(txt) THEN acc
    ELSE LineStartsFrom_OffByOne(txt, i + 1,
                                 IF txt[i + 1] = NL THEN Append(acc, i) ELSE acc)

\* line_starts: 0, then i + 1 for every i with text[i] == '\n', in order.
RECURSIVE LineStartsFrom(_, _, _)
LineStartsFrom(txt, i, acc) ==
    IF i >= Len(txt) THEN acc
    ELSE LineStartsFrom(txt, i + 1,
                        IF txt[i + 1] = NL THEN Append(acc, i + 1) ELSE acc)

BuildLineStarts(txt) == LineStartsFrom(txt, 0, <<0>>)

\* ScanLines with "pos > line_starts[line_idx]" for "pos >= ..."
RECURSIVE ScanLines_Strict(_, _, _)
ScanLines_Strict(ls, pos, line_idx) ==
    IF line_idx < Len(ls) - 1
    THEN IF pos > ls[line_idx + 1] /\ pos < ls[line_idx + 2]
         THEN line_idx
         ELSE ScanLines_Strict(ls, pos, line_idx + 1)
    ELSE line_idx

\* for (; line_idx < line_starts.size() - 1; ++line_idx)
\*     if (pos >= line_starts[line_idx] && pos < line_starts[line_idx + 1]) break;
RECURSIVE ScanLines(_, _, _)
ScanLines(ls, pos, line_idx) ==
    IF line_idx < Len(ls) - 1
    THEN IF pos >= ls[line_idx + 1] /\ pos < ls[line_idx + 2]
         THEN line_idx
         ELSE ScanLines(ls, pos, line_idx + 1)
    ELSE line_idx

FindLine(ls, pos) == ScanLines(ls, pos, 0)

LineStart(ls, line_idx) == ls[line_idx + 1]

\* LineEnd that keeps the newline in the line text
LineEnd_KeepsNewline(txt, ls, line_idx) ==
    IF line_idx < Len(ls) - 1 THEN ls[line_idx + 2] ELSE Len(txt)

LineEnd(txt, ls, line_idx) ==
    IF line_idx < Len(ls) - 1 THEN ls[line_idx + 2] - 1 ELSE Len(txt)

\* text.substr(line_start, line_end - line_start)
LineText(txt, ls, line_idx) ==
    SubSeq(txt, LineStart(ls, line_idx) + 1, LineEnd(txt, ls, line_idx))

\* One printed record: the 1-based line number and the line text; pos is
\* kept beside them for reference.
MatchRecord(txt, ls, pos) ==
    LET line_idx == FindLine(ls, pos)
    IN  [pos |-> pos, line |-> line_idx + 1, lineText |-> LineText(txt, ls, line_idx)]

(* -------------------------------- state -------------------------------- *)

VARIABLES
    argc,             \* number of command-line arguments, program name included
    argv1,            \* argv[1], the pattern
    source,           \* the bytes standard input or the named file holds
    fileOpens,        \* whether std::ifstream opens the named file (FALSE when none is named)
    pc,               \* position of main
    text,             \* std::string text
    device,           \* MTL::Device*:  "unset", "ok" or "nil"
    library,          \* MTL::Library*
    pipelineState,    \* MTL::ComputePipelineState*
    calls,            \* the backend calls main has made, in order
    textBuf,          \* contents of textBuffer
    patBuf,           \* contents of patternBuffer
    match_count,      \* contents of matchCountBuffer
    match_positions,  \* contents of matchPositionsBuffer (max_matches slots)
    stray,            \* slot indexes stored to beyond matchPositionsBuffer
    faulted,          \* the device aborted the batch on a stray store
    kpc,              \* position of every launched kernel instance; tid = index - 1
    count,            \* the kernel local "count" of every instance, -1 before line 61
    matchCount,       \* int matchCount of main
    matchPositions,   \* std::vector<int> matchPositions of main
    line_starts,      \* std::vector<size_t> line_starts
    output,           \* what was written to std::cout and std::cerr, in order
    exitCode,         \* value main returned, meaningful when pc = "exit"
    run,              \* 1 in the first run of the program, 2 in a repeated run
    firstRetained     \* the offsets the first run retained, once it is over

inputs  == <<argc, argv1, source, fileOpens>>
history == <<run, firstRetained>>
backend == <<device, library, pipelineState, calls>>
buffers == <<textBuf, patBuf, match_count, match_positions, stray, faulted>>
kernels == <<kpc, count>>
host    == <<text, matchCount, matchPositions, line_starts, output, exitCode>>
vars    == <<inputs, history, pc, backend, buffers, kernels, host>>

\* One line written to a stream.  "n" is the number the line states, "rec"
\* the match record of a record line.
NoRecord == [pos |-> -1, line |-> 0, lineText |-> <<>>]
Event(stream, kind, n, rec) == [stream |-> stream, kind |-> kind, n |-> n, rec |-> rec]

Finished(i) == kpc[i] \in {"done", "killed"}

\* main has been entered and nothing has run yet
Entered ==
    /\ pc = "start"
    /\ text = <<>>
    /\ device = "unset"
    /\ library = "unset"
    /\ pipelineState = "unset"
    /\ calls = <<>>
    /\ textBuf = <<>>
    /\ patBuf = <<>>
    /\ match_count = 0
    /\ match_positions = <<>>
    /\ stray = {}
    /\ faulted = FALSE
    /\ kpc = <<>>
    /\ count = <<>>
    /\ matchCount = 0
    /\ matchPositions = <<>>
    /\ line_starts = <<>>
    /\ output = <<>>
    /\ exitCode = 0

Init ==
    /\ argc \in 1..4
    /\ argv1 \in Patterns
    /\ source \in Haystacks
    /\ fileOpens \in (IF argc = 3 THEN BOOLEAN ELSE {FALSE})
    /\ run = 1
    /\ firstRetained = {}
    /\ Entered

\* the batch was launched
Launched == kpc # <<>>
\* main is past the harvest of lines 163-173
Harvested == pc \in {"report", "release"} \/ (pc = "exit" /\ line_starts # <<>>)
\* main is past the record loop of lines 184-203
Printed == pc = "release" \/ (pc = "exit" /\ line_starts # <<>>)
\* the offsets main keeps after the harvest
RetainedOffsets == {matchPositions[i] : i \in 1..matchCount}

(* ------------------------------- main ---------------------------------- *)

\* lines 94-97: neither 2 nor 3 arguments
Main_Usage ==
    /\ pc = "start"
    /\ argc \notin {2, 3}
    /\ output' = Append(output, Event("cerr", "usage", 0, NoRecord))
    /\ exitCode' = 1
    /\ pc' = "exit"
    /\ UNCHANGED <<inputs, history, backend, buffers, kernels, text, matchCount,
                   matchPositions, line_starts>>

\* Main_ReadStdin taken for every argument count below 3
Main_ReadStdin_AnyArgc ==
    /\ pc = "start"
    /\ argc <= 2
    /\ text' = source
    /\ pc' = "check"
    /\ UNCHANGED <<inputs, history, backend, buffers, kernels, matchCount,
                   matchPositions, line_starts, output, exitCode>>

\* lines 85-89: the haystack is all of standard input
Main_ReadStdin ==
    /\ pc = "start"
    /\ argc = 2
    /\ text' = source
    /\ pc' = "check"
    /\ UNCHANGED <<inputs, history, backend, buffers, kernels, matchCount,
                   matchPositions, line_starts, output, exitCode>>

\* readFile without the is_open test
readFile_NoOpenCheck == [result |-> source, cerr |-> <<>>]

\* lines 70-79: readFile
readFile ==
    IF fileOpens
    THEN [result |-> source, cerr |-> <<>>]
    ELSE [result |-> <<>>,
          cerr   |-> <<Event("cerr", "cannot read file", 0, NoRecord)>>]

\* lines 90-93: the haystack is what readFile returns
Main_ReadFile ==
    /\ pc = "start"
    /\ argc = 3
    /\ text' = readFile.result
    /\ output' = output \o readFile.cerr
    /\ pc' = "check"
    /\ UNCHANGED <<inputs, history, backend, buffers, kernels, matchCount,
                   matchPositions, line_starts, exitCode>>

\* SkipsBackend with && for ||
SkipsBackend_And(txt, pattern) == txt = <<>> /\ pattern = <<>>

\* line 102: if (text.empty() || pattern.empty())
SkipsBackend(txt, pattern) == txt = <<>> \/ pattern = <<>>

\* lines 102-106
Main_EmptyExit ==
    /\ pc = "check"
    /\ SkipsBackend(text, argv1)
    /\ output' = Append(output, Event("cout", "header", 0, NoRecord))
    /\ exitCode' = 0
    /\ pc' = "exit"
    /\ UNCHANGED <<inputs, history, backend, buffers, kernels, text, matchCount,
                   matchPositions, line_starts>>

\* line 109: CreateSystemDefaultDevice returns a device or nullptr; the
\* result is not tested.
Main_CreateDevice ==
    /\ pc = "check"
    /\ ~SkipsBackend(text, argv1)
    /\ \E d \in {"ok", "nil"} : device' = d
    /\ calls' = Append(calls, "CreateSystemDefaultDevice")
    /\ pc' = "library"
    /\ UNCHANGED <<inputs, history, library, pipelineState, buffers, kernels, host>>

\* What the call on line 113 and the test on line 116 lead to.  With a
\* device the library is built ("built") or not ("return": message, return
\* -1).  Through a null device the call is undefined: the process is killed
\* ("signal"), or the call yields no library and main returns -1.
LibraryOutcomes(dev) ==
    IF dev = "ok" THEN {"built", "return"} ELSE {"signal", "return"}

\* lines 112-119
Main_NewLibrary ==
    /\ pc = "library"
    /\ calls' = Append(calls, "newLibrary")
    /\ \E o \in LibraryOutcomes(device) :
         /\ library' = IF o = "built" THEN "ok" ELSE "nil"
         /\ pc' = CASE o = "built"  -> "pipeline"
                    [] o = "return" -> "exit"
                    [] o = "signal" -> "killed"
         /\ exitCode' = IF o = "return" THEN -1 ELSE exitCode
         /\ output' = IF o = "return"
                      THEN Append(output, Event("cerr", "Failed to compile shader", 0, NoRecord))
                      ELSE output
    /\ UNCHANGED <<inputs, history, device, pipelineState, buffers, kernels, text,
                   matchCount, matchPositions, line_starts>>

\* lines 121-122: the function is looked up and the pipeline state created;
\* neither result is tested.
Main_NewPipeline ==
    /\ pc = "pipeline"
    /\ \E p \in {"ok", "nil"} : pipelineState' = p
    /\ calls' = calls \o <<"newFunction", "newComputePipelineState">>
    /\ pc' = "buffers"
    /\ UNCHANGED <<inputs, history, device, library, buffers, kernels, host>>

\* lines 124-137: the terminated copies, the zeroed counter, the zeroed
\* offsets vector and the four shared buffers made from them
Main_CreateBuffers ==
    /\ pc = "buffers"
    /\ textBuf' = WithTerminator(text)
    /\ patBuf' = WithTerminator(argv1)
    /\ match_count' = 0
    /\ matchPositions' = [i \in 1..max_matches |-> 0]
    /\ match_positions' = [i \in 1..max_matches |-> 0]
    /\ calls' = calls \o <<"newBuffer", "newBuffer", "newBuffer", "newBuffer">>
    /\ pc' = "dispatch"
    /\ UNCHANGED <<inputs, history, device, library, pipelineState, stray, faulted, kernels,
                   text, matchCount, line_starts, output, exitCode>>

\* What encoding and committing the batch lead to.  With a pipeline state
\* and a non-empty grid the instances are launched.  Without a pipeline
\* state (maxTotalThreadsPerThreadgroup through a null pointer) or with a
\* grid of width 0 the threadgroup width is 0 and the encoder is misused:
\* the backend either launches nothing or aborts the process.
DispatchOutcomes(pipeline, width) ==
    IF pipeline = "ok" /\ width > 0 THEN {"launched"} ELSE {"nothing", "signal"}

\* lines 139-160
Main_Dispatch ==
    /\ pc = "dispatch"
    /\ calls' = calls \o <<"newCommandQueue", "dispatchThreads", "commit">>
    /\ LET width == GridInstances(Len(text), Len(argv1))
       IN  \E o \in DispatchOutcomes(pipelineState, width) :
             /\ kpc' = IF o = "launched" THEN [i \in 1..width |-> "ready"] ELSE <<>>
             /\ count' = IF o = "launched" THEN [i \in 1..width |-> -1] ELSE <<>>
             /\ pc' = IF o = "signal" THEN "killed" ELSE "wait"
    /\ UNCHANGED <<inputs, history, device, library, pipelineState, buffers, host>>

\* Main_Wait without the wait: main goes on while instances run
Main_Wait_NoBarrier ==
    /\ pc = "wait"
    /\ pc' = "harvest"
    /\ UNCHANGED <<inputs, history, backend, buffers, kernels, host>>

\* line 161: waitUntilCompleted returns when no instance is running
Main_Wait ==
    /\ pc = "wait"
    /\ \A i \in DOMAIN kpc : Finished(i)
    /\ pc' = "harvest"
    /\ UNCHANGED <<inputs, history, backend, buffers, kernels, host>>

\* lines 165-169: the count main keeps
Clamp(n) == IF n > max_matches THEN max_matches ELSE n

\* line 170: memcpy of the first n slots of the buffer into the vector
CopyFirst(vec, buf, n) == [i \in DOMAIN vec |-> IF i <= n THEN buf[i] ELSE vec[i]]

\* lines 163-173: read the counter, warn and clamp, copy the offsets, print
\* the header
Main_Harvest ==
    /\ pc = "harvest"
    /\ matchCount' = Clamp(match_count)
    /\ matchPositions' = CopyFirst(matchPositions, match_positions, Clamp(match_count))
    /\ output' = output
                 \o (IF match_count > max_matches
                     THEN <<Event("cerr", "warning", match_count, NoRecord)>>
                     ELSE <<>>)
                 \o <<Event("cout", "header", Clamp(match_count), NoRecord)>>
    /\ pc' = "report"
    /\ UNCHANGED <<inputs, history, backend, buffers, kernels, text, line_starts, exitCode>>

\* lines 184-203: one record per i < matchCount, in slot order
Records(txt, ls, positions, n) ==
    [i \in 1..n |-> Event("cout", "record", 0, MatchRecord(txt, ls, positions[i]))]

\* lines 175-203
Main_PrintLines ==
    /\ pc = "report"
    /\ line_starts' = BuildLineStarts(text)
    /\ output' = output \o Records(text, BuildLineStarts(text), matchPositions, matchCount)
    /\ pc' = "release"
    /\ UNCHANGED <<inputs, history, backend, buffers, kernels, text, matchCount,
                   matchPositions, exitCode>>

\* lines 205-216
Main_Return ==
    /\ pc = "release"
    /\ exitCode' = 0
    /\ pc' = "exit"
    /\ UNCHANGED <<inputs, history, backend, buffers, kernels, text, matchCount,
                   matchPositions, line_starts, output>>

(* ---------------------------- grep_kernel ------------------------------ *)

\* Kernel_Compare whose loop lacks "j--": it never ends once the last byte
\* of the pattern agrees
Kernel_Compare_Spins(i) ==
    /\ i \in DOMAIN kpc
    /\ kpc[i] = "ready"
    /\ LET tl == text_length(textBuf)
           pl == pattern_length(patBuf)
       IN  /\ IF GuardReturns(i - 1, tl, pl) \/ ~ReadsInBounds(textBuf, i - 1, pl)
              THEN TRUE
              ELSE patBuf[pl] # textBuf[i - 1 + pl]
           /\ kpc' = [kpc EXCEPT ![i] = "done"]
    /\ UNCHANGED <<inputs, history, pc, backend, buffers, count, host>>

\* lines 27-59 of instance i (tid = i - 1): the two length scans, the guard,
\* the shift table (written, never read) and the comparison
Kernel_Compare(i) ==
    /\ i \in DOMAIN kpc
    /\ kpc[i] = "ready"
    /\ LET tl == text_length(textBuf)
           pl == pattern_length(patBuf)
       IN  IF GuardReturns(i - 1, tl, pl)
           THEN kpc' = [kpc EXCEPT ![i] = "done"]
           ELSE \E found \in CompareOutcomes(textBuf, patBuf, i - 1, pl) :
                  kpc' = [kpc EXCEPT ![i] = IF found THEN "matched" ELSE "done"]
    /\ UNCHANGED <<inputs, history, pc, backend, buffers, count, host>>

\* Kernel_FetchAdd as a plain load and store: the value an instance gets may
\* be the one the instance before it got
Kernel_FetchAdd_Stale(i) ==
    /\ i \in DOMAIN kpc
    /\ kpc[i] = "matched"
    /\ \E seen \in {match_count, IF match_count > 0 THEN match_count - 1 ELSE 0} :
         /\ count' = [count EXCEPT ![i] = seen]
         /\ match_count' = seen + 1
    /\ kpc' = [kpc EXCEPT ![i] = "counted"]
    /\ UNCHANGED <<inputs, history, pc, backend, textBuf, patBuf, match_positions, stray,
                   faulted, host>>

\* line 61: atomic_fetch_add_explicit(match_count, 1, memory_order_relaxed)
Kernel_FetchAdd(i) ==
    /\ i \in DOMAIN kpc
    /\ kpc[i] = "matched"
    /\ count' = [count EXCEPT ![i] = match_count]
    /\ match_count' = match_count + 1
    /\ kpc' = [kpc EXCEPT ![i] = "counted"]
    /\ UNCHANGED <<inputs, history, pc, backend, textBuf, patBuf, match_positions, stray,
                   faulted, host>>

\* line 62: if (count < 1000)
StoreAllowed(c) == c < KernelLimit

\* What the store on line 63 leads to.  Inside the buffer the slot is
\* written.  Beyond its max_matches slots the store is undefined: it lands in
\* memory nothing reads ("slack"), or the device faults and aborts the batch
\* ("fault").
StoreOutcomes(c) == IF c < max_matches THEN {"slot"} ELSE {"slack", "fault"}

\* lines 62-65 of instance i
Kernel_Store(i) ==
    /\ i \in DOMAIN kpc
    /\ kpc[i] = "counted"
    /\ IF StoreAllowed(count[i])
       THEN \E o \in StoreOutcomes(count[i]) :
              /\ match_positions' = IF o = "slot"
                                    THEN [match_positions EXCEPT ![count[i] + 1] = i - 1]
                                    ELSE match_positions
              /\ stray' = IF o = "slot" THEN stray ELSE stray \cup {count[i]}
              /\ faulted' = (faulted \/ o = "fault")
              /\ kpc' = IF o = "fault"
                        THEN [k \in DOMAIN kpc |-> IF kpc[k] = "done" THEN "done" ELSE "killed"]
                        ELSE [kpc EXCEPT ![i] = "done"]
       ELSE /\ kpc' = [kpc EXCEPT ![i] = "done"]
            /\ UNCHANGED <<match_positions, stray, faulted>>
    /\ UNCHANGED <<inputs, history, pc, backend, textBuf, patBuf, match_count, count, host>>

(* ---------------------------- specification ---------------------------- *)

Next ==
    \/ Main_Usage
    \/ Main_ReadStdin
    \/ Main_ReadFile
    \/ Main_EmptyExit
    \/ Main_CreateDevice
    \/ Main_NewLibrary
    \/ Main_NewPipeline
    \/ Main_CreateBuffers
    \/ Main_Dispatch
    \/ Main_Wait
    \/ Main_Harvest
    \/ Main_PrintLines
    \/ Main_Return
    \/ \E i \in DOMAIN kpc : Kernel_Compare(i)
    \/ \E i \in DOMAIN kpc : Kernel_FetchAdd(i)
    \/ \E i \in DOMAIN kpc : Kernel_Store(i)

Spec == Init /\ [][Next]_vars

\* The steps of main, and of the kernel instance with thread id i - 1.
MainStep ==
    \/ Main_Usage
    \/ Main_ReadStdin
    \/ Main_ReadFile
    \/ Main_EmptyExit
    \/ Main_CreateDevice
    \/ Main_NewLibrary
    \/ Main_NewPipeline
    \/ Main_CreateBuffers
    \/ Main_Dispatch
    \/ Main_Wait
    \/ Main_Harvest
    \/ Main_PrintLines
    \/ Main_Return
KernelStep(i) == Kernel_Compare(i) \/ Kernel_FetchAdd(i) \/ Kernel_Store(i)

\* main runs on while it can, and the device runs every launched instance
\* until it returns.
FairSpec ==
    /\ Spec
    /\ WF_vars(MainStep)
    /\ \A i \in 1..(MaxN + 1) : WF_vars(KernelStep(i))

\* The program is started again on the same arguments and the same input
\* after a run whose batch ran to completion and that returned from main.
Rerun ==
    /\ run = 1
    /\ pc = "exit"
    /\ Harvested
    /\ Launched
    /\ ~faulted
    /\ run' = 2
    /\ firstRetained' = RetainedOffsets
    /\ pc' = "start"
    /\ text' = <<>>
    /\ device' = "unset"
    /\ library' = "unset"
    /\ pipelineState' = "unset"
    /\ calls' = <<>>
    /\ textBuf' = <<>>
    /\ patBuf' = <<>>
    /\ match_count' = 0
    /\ match_positions' = <<>>
    /\ stray' = {}
    /\ faulted' = FALSE
    /\ kpc' = <<>>
    /\ count' = <<>>
    /\ matchCount' = 0
    /\ matchPositions' = <<>>
    /\ line_starts' = <<>>
    /\ output' = <<>>
    /\ exitCode' = 0
    /\ UNCHANGED inputs

NextTwice == Next \/ Rerun

SpecTwice == Init /\ [][NextTwice]_vars

(* ------------------------ reference definitions ----------------------- *)

\* the pattern P occurs in H at offset o, compared left to right
Occurs(H, P, o) ==
    /\ o >= 0
    /\ o + Len(P) <= Len(H)
    /\ \A j \in 1..Len(P) : H[o + j] = P[j]

\* { o : 0 <= o <= N - M and H[o..o+M) = P }
TrueMatches(H, P) == {o \in 0..(Len(H) - Len(P)) : Occurs(H, P, o)}

\* the lines written so far of one kind
Lines(kind) == {k \in DOMAIN output : output[k].kind = kind}

\* offset of the first byte of the k-th line (k >= 1) of txt
NewlineOffsets(txt) == {i \in 0..(Len(txt) - 1) : txt[i + 1] = NL}
StartOfLine(txt, k) ==
    IF k = 1 THEN 0
    ELSE 1 + CHOOSE p \in NewlineOffsets(txt) :
                 Cardinality({q \in NewlineOffsets(txt) : q < p}) = k - 2

\* a call of the backend that comes after the pipeline state is created
LaterCalls == {"newBuffer", "newCommandQueue", "dispatchThreads", "commit"}
Called(name) == \E k \in DOMAIN calls : calls[k] = name

(* -------------------------------- claims ------------------------------- *)

\* C1: for a non-empty pattern no longer than the haystack that occurs at
\* most max_matches times, once the launched batch is harvested the retained
\* offsets are exactly the true occurrences, each retained once.
C1_HarvestExact ==
    ( /\ Harvested
      /\ Launched
      /\ Len(argv1) >= 1
      /\ Len(argv1) <= Len(text)
      /\ Cardinality(TrueMatches(text, argv1)) <= max_matches )
    => /\ RetainedOffsets = TrueMatches(text, argv1)
       /\ matchCount = Cardinality(TrueMatches(text, argv1))

\* C2: when the counter ends above max_matches, the header line states the
\* counter's value (stated for the runs in which no store faulted).
C2_HeaderTrueCount ==
    (Harvested /\ match_count > max_matches /\ ~faulted)
    => \E k \in Lines("header") : output[k].n = match_count

C4_LongPatternSkipsDispatch ==
    (pc # "start" /\ Len(text) >= 1 /\ Len(argv1) > Len(text))
    => /\ ~Called("dispatchThreads")
       /\ ~Launched
       /\ pc = "exit" => \E k \in Lines("header") : output[k].n = 0

\* C5: with an empty pattern or an empty haystack main makes no backend
\* call, launches nothing, prints no record, and returns 0 after a header
\* that states 0.
C5_EmptyInputExit ==
    (argc \in {2, 3} /\ pc # "start" /\ (text = <<>> \/ argv1 = <<>>))
    => /\ calls = <<>>
       /\ ~Launched
       /\ Lines("record") = {}
       /\ pc \in {"check", "exit"}
       /\ pc = "exit" => /\ exitCode = 0
                         /\ Lines("header") # {}
                         /\ \A k \in Lines("header") : output[k].n = 0

C5_Witness ==
    /\ pc = "exit"
    /\ argc = 2
    /\ argv1 = <<>>
    /\ text # <<>>
    /\ output = <<Event("cout", "header", 0, NoRecord)>>

\* C6: a second run on the same input retains the same set of offsets as the
\* first (stated for a pattern no longer than the haystack and two runs whose
\* batch ran to completion).
C6_SameSetTwice ==
    (run = 2 /\ Harvested /\ Launched /\ ~faulted /\ Len(argv1) <= Len(text))
    => RetainedOffsets = firstRetained

\* C6 as amended: the same, for a non-empty pattern no longer than the
\* haystack whose counter ends at or below max_matches.
C6_SameSetBelowCapacity ==
    ( /\ run = 2
      /\ Harvested
      /\ Launched
      /\ Len(argv1) <= Len(text)
      /\ match_count <= max_matches )
    => RetainedOffsets = firstRetained

C6_Witness ==
    /\ run = 2
    /\ Harvested
    /\ Launched
    /\ match_count = max_matches
    /\ firstRetained = RetainedOffsets
    /\ \E i \in 1..(matchCount - 1) : matchPositions[i] > matchPositions[i + 1]

\* the pattern is found in lineText at column col
FoundAt(lineText, P, col) ==
    /\ col >= 0
    /\ col + Len(P) <= Len(lineText)
    /\ \A j \in 1..Len(P) : lineText[col + j] = P[j]

\* the printed records whose offset is a true occurrence of the pattern
MatchRecords ==
    {k \in Lines("record") : output[k].rec.pos \in TrueMatches(text, argv1)}

\* C7: the line text of every record of a match holds the whole pattern at
\* column (offset - start of the reported line).
C7_PatternInLineText ==
    \A k \in MatchRecords :
        FoundAt(output[k].rec.lineText, argv1,
                output[k].rec.pos - StartOfLine(text, output[k].rec.line))

\* C7 as amended: the same, for a pattern that holds no newline byte.
C7_PatternInLineTextNoNewline ==
    (\A j \in 1..Len(argv1) : argv1[j] # NL) => C7_PatternInLineText

C7_Witness ==
    /\ \A j \in 1..Len(argv1) : argv1[j] # NL
    /\ Len(argv1) = 2
    /\ \E k \in MatchRecords : output[k].rec.line = 2 /\ output[k].rec.pos = 2

\* C8: with an argument count other than 2 or 3 main reads no input, makes
\* no backend call, launches nothing, and returns 1 after the usage message.
C8_UsageExit ==
    argc \notin {2, 3}
    => /\ text = <<>>
       /\ calls = <<>>
       /\ ~Launched
       /\ pc \in {"start", "exit"}
       /\ pc = "exit" => /\ exitCode = 1
                         /\ output = <<Event("cerr", "usage", 0, NoRecord)>>

C8_Witness ==
    /\ pc = "exit"
    /\ argc = 4
    /\ source # <<>>
    /\ argv1 # <<>>
    /\ exitCode = 1

\* C9: when the named file does not open, the haystack is empty, nothing is
\* dispatched, and main returns 0 after a header that states 0.
C9_UnreadableFileIsEmpty ==
    (argc = 3 /\ ~fileOpens /\ pc # "start")
    => /\ text = <<>>
       /\ calls = <<>>
       /\ ~Launched
       /\ pc \in {"check", "exit"}
       /\ pc = "exit" => /\ exitCode = 0
                         /\ \E k \in Lines("header") : output[k].n = 0

C9_Witness ==
    /\ pc = "exit"
    /\ argc = 3
    /\ ~fileOpens
    /\ source # <<>>
    /\ argv1 # <<>>
    /\ exitCode = 0
    /\ Len(output) = 2

\* C10: after a failed setup call (no device, no library, no pipeline state)
\* no later backend call is made and main never returns 0.
C10_FailFast ==
    /\ device = "nil" => ~Called("newLibrary")
    /\ library = "nil" => ~Called("newComputePipelineState")
    /\ pipelineState = "nil" => \A c \in LaterCalls : ~Called(c)
    /\ ("nil" \in {device, library, pipelineState} /\ pc = "exit") => exitCode # 0

\* C11: every slot index a kernel instance stores to lies inside the
\* max_matches slots of the offsets buffer.
C11_StoresInsideBuffer == stray = {}

\* C12: no two instances hold the same pre-increment value, and the slot of
\* an instance that has stored holds that instance's thread id.
C12_UniqueSlots ==
    /\ \A i, j \in DOMAIN kpc :
         (i # j /\ count[i] >= 0 /\ count[j] >= 0) => count[i] # count[j]
    /\ \A i \in DOMAIN kpc :
         (kpc[i] = "done" /\ count[i] >= 0 /\ count[i] < max_matches)
         => match_positions[count[i] + 1] = i - 1

C12_Witness ==
    \E i, j \in DOMAIN kpc :
        /\ i > j
        /\ kpc[i] = "done" /\ count[i] = 0
        /\ kpc[j] = "done" /\ count[j] = 1
        /\ match_positions = <<i - 1, j - 1>>

\* C13: when the launched batch of a pattern no longer than the haystack is
\* over, the counter equals the number of occurrences and each of the slots
\* 0 .. min(counter, max_matches) - 1 holds the offset of the occurrence whose
\* instance obtained it.
C13_CounterIsOccurrences ==
    ( /\ Launched
      /\ pc \notin {"dispatch", "wait"}
      /\ Len(argv1) <= Len(text) )
    => /\ match_count = Cardinality(TrueMatches(text, argv1))
       /\ \A s \in 0..(Clamp(match_count) - 1) :
            \E i \in DOMAIN kpc :
                /\ count[i] = s
                /\ match_positions[s + 1] = i - 1
                /\ Occurs(text, argv1, i - 1)

\* C14: once main is past the harvest no launched instance is running, and
\* from then on neither the counter, nor the offsets buffer, nor what main
\* copied from them changes.
C14_HarvestAfterBatch ==
    /\ [](Harvested => \A i \in DOMAIN kpc : Finished(i))
    /\ [][Harvested => /\ match_count' = match_count
                       /\ match_positions' = match_positions
                       /\ matchCount' = matchCount
                       /\ matchPositions' = matchPositions]_vars

C14_Witness ==
    /\ Harvested
    /\ Len(kpc) >= 3
    /\ match_count >= 2
    /\ \A i \in DOMAIN kpc : kpc[i] = "done"

\* number of lines of txt, and the text of its L-th line without the newline
LineCount(txt) == Cardinality(NewlineOffsets(txt)) + 1
TextOfLine(txt, L) ==
    LET st   == StartOfLine(txt, L)
        ends == {p \in NewlineOffsets(txt) : p >= st}
        en   == IF ends = {} THEN Len(txt)
                ELSE CHOOSE p \in ends : \A q \in ends : p <= q
    IN  SubSeq(txt, st + 1, en)

\* C15: a record printed for an offset o in 0 .. N - M names the last line
\* that starts at or before o and carries that line's text up to, not
\* including, its newline; also when the match runs across the newline.
C15_LineOfOffset ==
    \A k \in Lines("record") :
        LET o == output[k].rec.pos
            L == output[k].rec.line
        IN  (0 <= o /\ o <= Len(text) - Len(argv1))
            => /\ L \in 1..LineCount(text)
               /\ StartOfLine(text, L) <= o
               /\ L < LineCount(text) => StartOfLine(text, L + 1) > o
               /\ output[k].rec.lineText = TextOfLine(text, L)

C15_Witness ==
    /\ argv1 = <<97, NL>>
    /\ \E k \in MatchRecords :
         /\ output[k].rec.line = 2
         /\ output[k].rec.pos = 1
         /\ output[k].rec.lineText = <<97>>

\* C16: the line index main builds starts with 0, is strictly increasing,
\* has one entry more than the haystack has newline bytes, and its other
\* entries are exactly the offsets i + 1 of the newline bytes at i.
C16_LineIndexShape ==
    line_starts # <<>>
    => /\ line_starts[1] = 0
       /\ \A k \in 1..(Len(line_starts) - 1) : line_starts[k] < line_starts[k + 1]
       /\ Len(line_starts) = Cardinality(NewlineOffsets(text)) + 1
       /\ {line_starts[k] : k \in 2..Len(line_starts)}
            = {i + 1 : i \in NewlineOffsets(text)}

C16_Witness ==
    /\ Len(line_starts) = 3
    /\ text[1] # NL
    /\ text[Len(text)] = NL

\* C17: for 1 <= M <= N a dispatch with a pipeline state launches the
\* instances with thread ids 0 .. N - M and no others, and an instance about
\* to pass the guard has its id in that range and compares only haystack
\* bytes below N.
C17_GridIsCandidates ==
    ( /\ Called("dispatchThreads")
      /\ pipelineState = "ok"
      /\ 1 <= Len(argv1)
      /\ Len(argv1) <= Len(text) )
    => /\ DOMAIN kpc = 1..(Len(text) - Len(argv1) + 1)
       /\ \A i \in DOMAIN kpc :
            ( /\ kpc[i] = "ready"
              /\ ~GuardReturns(i - 1, text_length(textBuf), pattern_length(patBuf)) )
            => /\ i - 1 <= Len(text) - Len(argv1)
               /\ (i - 1) + pattern_length(patBuf) - 1 < Len(text)

C17_Witness ==
    /\ Len(text) = 4
    /\ Len(argv1) = 2
    /\ Len(kpc) = 3
    /\ kpc[3] = "matched"
    /\ kpc[1] = "ready"

C19_KernelLengthsAreHostLengths ==
    textBuf # <<>>
    => /\ text_length(textBuf) = Len(text)
       /\ pattern_length(patBuf) = Len(argv1)

\* C20: once the batch of a pattern no longer than the haystack is launched,
\* main eventually returns 0 with the header and the records printed and
\* every instance finished.
C20_BatchTerminates ==
    (pc = "wait" /\ Launched /\ Len(argv1) <= Len(text))
    ~> ( /\ pc = "exit"
         /\ exitCode = 0
         /\ Printed
         /\ Lines("header") # {}
         /\ Cardinality(Lines("record")) = matchCount
         /\ \A i \in DOMAIN kpc : Finished(i) )

C20_Witness ==
    /\ pc = "exit"
    /\ exitCode = 0
    /\ Launched
    /\ Len(argv1) <= Len(text)
    /\ Cardinality(Lines("record")) = 2
    /\ \A i \in DOMAIN kpc : kpc[i] = "done"

====
